---- MODULE Spec2Model ----
(***************************************************************************)
(* Model of SignalCaptureWindow (src/capture_window.py): a buffer of       *)
(* timestamped per-sensor readings that is turned into a fingerprint as    *)
(* soon as the buffered window is long enough and enough sensors are       *)
(* present in it.                                                          *)
(*                                                                         *)
(* Timestamps are integers counted in the time unit of the configuration   *)
(* (one second for the generic configurations, a tenth of a second for     *)
(* the worked example of the specification).  The caller feeds readings    *)
(* in time order, as the data model requires.                              *)
(*                                                                         *)
(* Python numbers stored in dictionaries are tagged values: Num(n) is an   *)
(* integer-valued number, Tss(b) the real number that is the sum over x of *)
(* b[x] * 10^(x/10).  A dictionary is a function from its keys; None, for  *)
(* an optional dictionary, is the empty set and a given dictionary d is    *)
(* the singleton {d}.                                                      *)
(***************************************************************************)
EXTENDS Integers, Sequences, FiniteSets, TLC

VARIABLES
    cfg,             \* the constructor arguments (immutable afterwards)
    readings_stack,  \* self._readings_stack
    call,            \* history: the arguments of the last call
    pre,             \* history: self._readings_stack when the last call began
    window,          \* history: the buffer of the last call after append and eviction
    outcome,         \* history: what the last call returned or raised
    latest,          \* history: the timestamp of the most recently ingested reading
    batch,           \* history: the arguments of the last process_readings call
    batch_out,       \* history: what the last process_readings call returned or raised
    missing,         \* history: the key the caller left out of a reading of the last batch
    twin,            \* a second instance with the same parameters: its buffer and results
    spacing          \* history of SpacedProcessReading: the fingerprint before the call

vars == <<cfg, readings_stack, call, pre, window, outcome, latest, batch, batch_out,
          missing, twin, spacing>>

-----------------------------------------------------------------------------
(* Bounds of the model *)

MaxStack == 3
MaxTime == 2
MaxBatch == 3

-----------------------------------------------------------------------------
(* Values *)

Num(n) == [num |-> n]
Tss(b) == [tss |-> b]
Str(t) == [str |-> t]

EmptyDict == [k \in {} |-> Num(0)]

\* {**a, **b}: every key of either, b's value on a collision
DictMerge(a, b) ==
    [k \in (DOMAIN a) \cup (DOMAIN b) |-> IF k \in DOMAIN b THEN b[k] ELSE a[k]]

\* d[k] = v on a copy of d
DictSet(d, k, v) ==
    [j \in (DOMAIN d) \cup {k} |-> IF j = k THEN v ELSE d[j]]

RECURSIVE SeqSum(_)
SeqSum(s) == IF s = <<>> THEN 0 ELSE Head(s) + SeqSum(Tail(s))

SeqSet(s) == {s[i] : i \in 1..Len(s)}

Count(s, v) == Cardinality({i \in 1..Len(s) : s[i] = v})

SetMax(S) == CHOOSE m \in S : \A x \in S : x <= m
SetMin(S) == CHOOSE m \in S : \A x \in S : m <= x

\* the k-th smallest element of s, counting repetitions (k in 1..Len(s))
KthSmallest(s, k) ==
    CHOOSE v \in SeqSet(s) :
        /\ Cardinality({i \in 1..Len(s) : s[i] < v}) < k
        /\ Cardinality({i \in 1..Len(s) : s[i] <= v}) >= k

-----------------------------------------------------------------------------
(* The reductions of compose_fingerprint_data, on a non-empty list of rssi *)

\* a variant that rounds the mean toward zero
TruncatedMean(values) ==
    LET total == SeqSum(values)
    IN  IF total >= 0 THEN total \div Len(values) ELSE -((-total) \div Len(values))

\* math.floor(np.mean(values))
FloorMean(values) == SeqSum(values) \div Len(values)

\* math.floor(np.median(values)): the middle value, or the mean of the two middle ones
FloorMedian(values) ==
    LET n == Len(values)
    IN  IF n % 2 = 1
        THEN KthSmallest(values, (n + 1) \div 2)
        ELSE (KthSmallest(values, n \div 2) + KthSmallest(values, n \div 2 + 1)) \div 2

\* math.floor(stats.mode(values)[0]): the most frequent value, the smallest on a tie
FloorMode(values) ==
    LET top == SetMax({Count(values, v) : v \in SeqSet(values)})
    IN  SetMin({v \in SeqSet(values) : Count(values, v) = top})

FloorMax(values) == SetMax(SeqSet(values))
FloorMin(values) == SetMin(SeqSet(values))

\* a variant that floors the sum, 10**(x/10) taken in thousandths
FlooredSignalSum(values) ==
    Num(SeqSum([i \in 1..Len(values) |->
                   CASE values[i] = -4 -> 398
                     [] values[i] = -1 -> 794
                     [] OTHER -> 1000]) \div 1000)

\* np.sum(10**(x/10) for x in values), not floored
TotalSignalSum(values) == Tss([x \in SeqSet(values) |-> Count(values, x)])

KnownFilters == {"mean", "median", "mode", "max", "min", "tss"}

\* The if/elif chain of lines 124-137 for one valid sensor.
\* np.mean and np.median of an empty list are nan, which math.floor rejects;
\* np.max, np.min and the mode of an empty list fail as well; np.sum is 0.0.
ApplyFilter(filter_method, values) ==
    IF filter_method \notin KnownFilters
    THEN [ok |-> FALSE, value |-> Num(0), error |-> "Invalid filtering type"]
    ELSE IF filter_method = "tss"
    THEN [ok |-> TRUE, value |-> TotalSignalSum(values), error |-> ""]
    ELSE IF values = <<>>
    THEN [ok |-> FALSE, value |-> Num(0), error |-> "empty reduction"]
    ELSE [ok |-> TRUE, error |-> "", value |->
            Num(CASE filter_method = "mean"   -> FloorMean(values)
                  [] filter_method = "median" -> FloorMedian(values)
                  [] filter_method = "mode"   -> FloorMode(values)
                  [] filter_method = "max"    -> FloorMax(values)
                  [] filter_method = "min"    -> FloorMin(values))]

-----------------------------------------------------------------------------
(* The engine *)

\* filter(lambda x: x['mac_sensor'] == sensor_mac, stack)
SensorReadings(stack, sensor_mac) ==
    SelectSeq(stack, LAMBDA x : x.mac_sensor = sensor_mac)

RssiOf(readings) == [i \in 1..Len(readings) |-> readings[i].rssi]

\* a variant that pops the head once instead of looping
RemoveOldReadingsOnce(stack, timestamp, max_window_size) ==
    IF Len(stack) > 0 /\ timestamp - stack[1].timestamp > max_window_size
    THEN Tail(stack)
    ELSE stack

\* a variant that also pops a head exactly max_window_size old
RECURSIVE RemoveOldReadingsEager(_, _, _)
RemoveOldReadingsEager(stack, timestamp, max_window_size) ==
    IF Len(stack) > 0 /\ timestamp - stack[1].timestamp >= max_window_size
    THEN RemoveOldReadingsEager(Tail(stack), timestamp, max_window_size)
    ELSE stack

\* a variant that pops the newest entry while the head is stale
RECURSIVE RemoveOldReadingsFromTail(_, _, _)
RemoveOldReadingsFromTail(stack, timestamp, max_window_size) ==
    IF Len(stack) > 0 /\ timestamp - stack[1].timestamp > max_window_size
    THEN RemoveOldReadingsFromTail(SubSeq(stack, 1, Len(stack) - 1), timestamp,
                                   max_window_size)
    ELSE stack

\* the while loop of lines 59-60
RECURSIVE RemoveOldReadings(_, _, _)
RemoveOldReadings(stack, timestamp, max_window_size) ==
    IF Len(stack) > 0 /\ timestamp - stack[1].timestamp > max_window_size
    THEN RemoveOldReadings(Tail(stack), timestamp, max_window_size)
    ELSE stack

\* the loop of lines 95-98
ValidSensors(c, stack) ==
    Cardinality({i \in 1..Len(c.sensor_mac_list) :
        Len(SensorReadings(stack, c.sensor_mac_list[i])) >= c.min_entries_per_sensor})

\* a variant that asks for a window strictly longer than min_window_size
check_valid_window_strict(c, stack, timestamp) ==
    IF ~(Len(stack) > 0 /\ timestamp - stack[1].timestamp > c.min_window_size)
    THEN FALSE
    ELSE IF ValidSensors(c, stack) < c.min_valid_sensors
    THEN FALSE
    ELSE TRUE

\* a variant that never looks at the sensors
check_valid_window_length_only(c, stack, timestamp) ==
    Len(stack) > 0 /\ timestamp - stack[1].timestamp >= c.min_window_size

\* a variant that asks for exactly min_valid_sensors sensors with enough readings
check_valid_window_exact(c, stack, timestamp) ==
    IF ~(Len(stack) > 0 /\ timestamp - stack[1].timestamp >= c.min_window_size)
    THEN FALSE
    ELSE IF ValidSensors(c, stack) # c.min_valid_sensors
    THEN FALSE
    ELSE TRUE

\* a variant that only asks for a non-empty buffer, whatever its length in time
check_valid_window_any_length(c, stack, timestamp) ==
    IF ~(Len(stack) > 0)
    THEN FALSE
    ELSE IF ValidSensors(c, stack) < c.min_valid_sensors
    THEN FALSE
    ELSE TRUE

\* lines 90-104
check_valid_window(c, stack, timestamp) ==
    IF ~(Len(stack) > 0 /\ timestamp - stack[1].timestamp >= c.min_window_size)
    THEN FALSE
    ELSE IF ValidSensors(c, stack) < c.min_valid_sensors
    THEN FALSE
    ELSE TRUE

\* fingerprint[sensor_mac] = the filtered value, unless the filter raised (lines 124-137)
AssignFiltered(acc, sensor_mac, r) ==
    IF r.ok
    THEN [ok |-> TRUE, fingerprint |-> DictSet(acc, sensor_mac, r.value), error |-> ""]
    ELSE [ok |-> FALSE, fingerprint |-> EmptyDict, error |-> r.error]

\* a variant that leaves a sensor with too few readings out of the fingerprint
ComposeSensorSkipping(c, sensor_readings, sensor_mac, acc) ==
    IF Len(sensor_readings) >= c.min_entries_per_sensor
    THEN AssignFiltered(acc, sensor_mac,
                        ApplyFilter(c.filter_method, RssiOf(sensor_readings)))
    ELSE [ok |-> TRUE, fingerprint |-> acc, error |-> ""]

\* one iteration of the loop of lines 118-140 on the fingerprint built so far, given
\* the readings of the sensor
ComposeSensor(c, sensor_readings, sensor_mac, acc) ==
    IF Len(sensor_readings) >= c.min_entries_per_sensor
    THEN AssignFiltered(acc, sensor_mac,
                        ApplyFilter(c.filter_method, RssiOf(sensor_readings)))
    ELSE [ok |-> TRUE,
          fingerprint |-> DictSet(acc, sensor_mac, Num(c.invalid_sensor_value)),
          error |-> ""]

\* the loop of lines 118-140 from the i-th sensor on; step is the fingerprint after
\* the sensors before it, or the error one of them raised
RECURSIVE ComposeFrom(_, _, _, _)
ComposeFrom(c, stack, i, step) ==
    IF i > Len(c.sensor_mac_list) \/ ~step.ok
    THEN step
    ELSE ComposeFrom(c, stack, i + 1,
                     ComposeSensor(c, SensorReadings(stack, c.sensor_mac_list[i]),
                                   c.sensor_mac_list[i], step.fingerprint))

compose_fingerprint_data(c, stack) ==
    ComposeFrom(c, stack, 1, [ok |-> TRUE, fingerprint |-> EmptyDict, error |-> ""])

None == [kind |-> "none", fingerprint |-> EmptyDict, error |-> ""]
Returned(fp) == [kind |-> "fingerprint", fingerprint |-> fp, error |-> ""]
Raised(e) == [kind |-> "error", fingerprint |-> EmptyDict, error |-> e]

\* a variant in which the extra data is written over the fingerprint
MergeExtraOnTop(stamped, aggregate_data) ==
    IF aggregate_data # {}
    THEN DictMerge(stamped, CHOOSE d \in aggregate_data : TRUE)
    ELSE stamped

\* lines 74-76: the extra data underneath the stamped fingerprint
MergeExtra(stamped, aggregate_data) ==
    IF aggregate_data # {}
    THEN DictMerge(CHOOSE d \in aggregate_data : TRUE, stamped)
    ELSE stamped

\* lines 71-78: the timestamp, then the extra data
FinishFingerprint(fingerprint, timestamp, aggregate_data) ==
    MergeExtra(DictSet(fingerprint, "timestamp", Num(timestamp)), aggregate_data)

\* a variant that keeps the triggering reading for the next window
StackKeepingLast(stack) == <<stack[Len(stack)]>>

\* a variant that leaves the buffer as it is, the window sliding on
StackKeepingAll(stack) == stack

\* the buffer after a valid window was found (line 68)
StackAfterEmission(stack) == <<>>

\* lines 69-78: what the call hands back once the window was composed
Emit(composed, timestamp, aggregate_data) ==
    IF composed.ok
    THEN Returned(FinishFingerprint(composed.fingerprint, timestamp, aggregate_data))
    ELSE Raised(composed.error)

\* a variant that clears the buffer only after the window was composed without error
JudgeWindowClearingLate(c, kept, timestamp, aggregate_data) ==
    IF ~check_valid_window(c, kept, timestamp)
    THEN [readings_stack |-> kept, window |-> kept, outcome |-> None]
    ELSE [readings_stack |-> IF compose_fingerprint_data(c, kept).ok
                             THEN StackAfterEmission(kept)
                             ELSE kept,
          window |-> kept,
          outcome |-> Emit(compose_fingerprint_data(c, kept), timestamp, aggregate_data)]

\* lines 62-78 on the buffer kept after append and eviction
JudgeWindow(c, kept, timestamp, aggregate_data) ==
    IF ~check_valid_window(c, kept, timestamp)
    THEN [readings_stack |-> kept, window |-> kept, outcome |-> None]
    ELSE [readings_stack |-> StackAfterEmission(kept),
          window |-> kept,
          outcome |-> Emit(compose_fingerprint_data(c, kept), timestamp, aggregate_data)]

\* the whole of process_reading: the buffer it leaves, the window it judged, its outcome
process_reading(c, stack, timestamp, mac_sensor, rssi, aggregate_data) ==
    JudgeWindow(c,
                RemoveOldReadings(
                    Append(stack, [timestamp |-> timestamp, mac_sensor |-> mac_sensor,
                                   rssi |-> rssi]),
                    timestamp, c.max_window_size),
                timestamp, aggregate_data)


\* the arguments of process_readings that name the keys: the defaults of line 144
DefaultHeads ==
    [timestamp_head |-> "timestamp", mac_sensor_head |-> "mac_sensor",
     rssi_head |-> "rssi", aggregate_data_heads |-> <<>>]

BatchReturned(fps) == [kind |-> "returned", fingerprints |-> fps, error |-> ""]
BatchRaised(e) == [kind |-> "error", fingerprints |-> <<>>, error |-> e]

\* the loop state of process_readings before any reading
LoopStart(stack) ==
    [readings_stack |-> stack, fingerprints |-> <<>>, error |-> "", ingested |-> 0]

\* a variant that puts each new fingerprint in front of the list
CollectPrepending(acc, done) ==
    [readings_stack |-> done.readings_stack,
     fingerprints |-> IF done.outcome.kind = "fingerprint"
                      THEN <<done.outcome.fingerprint>> \o acc.fingerprints
                      ELSE acc.fingerprints,
     error |-> done.outcome.error,
     ingested |-> acc.ingested + 1]

\* lines 178-180: the loop state after the call done of process_reading
Collect(acc, done) ==
    [readings_stack |-> done.readings_stack,
     fingerprints |-> IF done.outcome.kind = "fingerprint"
                      THEN Append(acc.fingerprints, done.outcome.fingerprint)
                      ELSE acc.fingerprints,
     error |-> done.outcome.error,
     ingested |-> acc.ingested + 1]

\* line 175: the passthrough data of a reading, None without passthrough keys
AggregateOf(reading, aggregate_data_heads) ==
    IF Len(aggregate_data_heads) > 0
    THEN {[h \in SeqSet(aggregate_data_heads) |-> reading[h]]}
    ELSE {}

\* the keys lines 170-175 read from a reading
WantedKeys(heads) ==
    {heads.timestamp_head, heads.mac_sensor_head, heads.rssi_head}
        \cup SeqSet(heads.aggregate_data_heads)

\* a variant that skips a reading with a missing key and goes on
ReadingsStepSkipping(c, acc, reading, heads) ==
    IF ~(WantedKeys(heads) \subseteq DOMAIN reading)
    THEN acc
    ELSE Collect(acc,
                 process_reading(c, acc.readings_stack,
                                 reading[heads.timestamp_head].num,
                                 reading[heads.mac_sensor_head].str,
                                 reading[heads.rssi_head].num,
                                 AggregateOf(reading, heads.aggregate_data_heads)))

\* one iteration of the loop of lines 167-180: a missing key raises KeyError before the
\* reading is ingested; an error of process_reading passes through
ReadingsStep(c, acc, reading, heads) ==
    IF ~(WantedKeys(heads) \subseteq DOMAIN reading)
    THEN [acc EXCEPT !.error = "KeyError"]
    ELSE Collect(acc,
                 process_reading(c, acc.readings_stack,
                                 reading[heads.timestamp_head].num,
                                 reading[heads.mac_sensor_head].str,
                                 reading[heads.rssi_head].num,
                                 AggregateOf(reading, heads.aggregate_data_heads)))

RECURSIVE ReadingsLoop(_, _, _, _, _)
ReadingsLoop(c, acc, readings, i, heads) ==
    IF i > Len(readings) \/ acc.error # ""
    THEN acc
    ELSE ReadingsLoop(c, ReadingsStep(c, acc, readings[i], heads), readings, i + 1, heads)

\* lines 183-187: the second reset and the returned list, or the error that ended the loop
FinishBatch(final, reset_readings_stack) ==
    IF final.error # ""
    THEN [readings_stack |-> final.readings_stack, ingested |-> final.ingested,
          result |-> BatchRaised(final.error)]
    ELSE [readings_stack |-> IF reset_readings_stack THEN <<>> ELSE final.readings_stack,
          ingested |-> final.ingested,
          result |-> BatchReturned(final.fingerprints)]

\* a variant that never clears the buffer before the batch
process_readings_without_reset(c, stack, readings, heads, reset_readings_stack) ==
    FinishBatch(ReadingsLoop(c, LoopStart(stack), readings, 1, heads),
                reset_readings_stack)

\* the whole of process_readings: the buffer it leaves, how many readings it ingested,
\* and the list it returns or the error it raises
process_readings(c, stack, readings, heads, reset_readings_stack) ==
    FinishBatch(ReadingsLoop(c, LoopStart(IF reset_readings_stack THEN <<>> ELSE stack),
                             readings, 1, heads),
                reset_readings_stack)

-----------------------------------------------------------------------------
(* Configurations and inputs *)

DefaultInvalidSensorValue == 100

Config(sensors, min_w, max_w, min_entries, min_valid, filter) ==
    [sensor_mac_list |-> sensors, min_window_size |-> min_w, max_window_size |-> max_w,
     min_entries_per_sensor |-> min_entries, min_valid_sensors |-> min_valid,
     filter_method |-> filter, invalid_sensor_value |-> DefaultInvalidSensorValue]

\* the configuration of the worked example, in tenths of a second
ExampleConfig == Config(<<"A", "B">>, 10, 100, 2, 2, "mean")

ExampleReadings ==
    << [timestamp |-> 0,  mac_sensor |-> "A", rssi |-> -40],
       [timestamp |-> 2,  mac_sensor |-> "B", rssi |-> -50],
       [timestamp |-> 5,  mac_sensor |-> "A", rssi |-> -44],
       [timestamp |-> 10, mac_sensor |-> "B", rssi |-> -52] >>

AllFilters == KnownFilters \cup {"rms"}

GenericConfigs ==
    { Config(s, w[1], w[2], e, v, f) :
        s \in {<<"A", "B">>, <<"B">>}, w \in {<<1, 1>>, <<1, 2>>},
        e \in 0..2, v \in 0..2, f \in AllFilters }

\* every window policy under "mean"; every filter under one window size
Configs ==
    { c \in GenericConfigs :
        \/ /\ c.filter_method = "mean"
           /\ c.sensor_mac_list = <<"A", "B">> \/ c.max_window_size = 1
        \/ /\ c.filter_method # "mean"
           /\ c.sensor_mac_list = <<"A", "B">>
           /\ c.max_window_size = 2
           /\ c.min_valid_sensors <= 1 }
    \cup {ExampleConfig}

GenericReadings ==
    [timestamp : 0..MaxTime, mac_sensor : {"A", "B"}, rssi : {-4, -1}]

\* the readings a stream under configuration c is drawn from
Readings(c) == IF c = ExampleConfig THEN SeqSet(ExampleReadings) ELSE GenericReadings

\* the buffer is bounded in the model; the worked example needs all its readings
StackBound(c) == IF c = ExampleConfig THEN Len(ExampleReadings) ELSE MaxStack

\* no extra data, or extra data whose keys collide with the fingerprint's own
AggregateChoices ==
    { {}, {[k \in {"timestamp", "B", "note"} |-> Num(9)]} }

NoCall == [timestamp |-> 0, mac_sensor |-> "", rssi |-> 0, aggregate_data |-> {}]
NotCalled == [kind |-> "init", fingerprint |-> EmptyDict, error |-> ""]

\* the configurations the batch driver is run under: one present sensor is enough;
\* a floored filter, the unfloored one and an unrecognised one
BatchConfigs ==
    { c \in Configs :
        /\ c.sensor_mac_list = <<"A", "B">>
        /\ c.min_entries_per_sensor = 1
        /\ c.min_valid_sensors = 1
        /\ c.filter_method \in {"mean", "tss", "rms"} }

\* the stream a batch is cut from: one reading per tick, the two sensors in turn
BatchReadings ==
    { r \in GenericReadings :
        /\ r.mac_sensor = "A" <=> r.timestamp % 2 = 0
        /\ r.rssi = -4 <=> r.mac_sensor = "A" }

\* the serial number a reading carries as passthrough data
NoteOf(r) == Num(50 + r.timestamp)

\* the names of the keys: the defaults, or names of the caller's own with passthrough
\* keys one of which collides with the fingerprint's timestamp
HeadChoices ==
    { DefaultHeads,
      [timestamp_head |-> "timestamp", mac_sensor_head |-> "mac", rssi_head |-> "value",
       aggregate_data_heads |-> <<"note", "timestamp">>] }

\* the dictionary a caller builds for reading r under the key names of heads
DictReading(r, heads) ==
    [k \in {heads.timestamp_head, heads.mac_sensor_head, heads.rssi_head, "note"} |->
        IF k = heads.timestamp_head THEN Num(r.timestamp)
        ELSE IF k = heads.mac_sensor_head THEN Str(r.mac_sensor)
        ELSE IF k = heads.rssi_head THEN Num(r.rssi)
        ELSE NoteOf(r)]

\* the time-ordered lists of at most MaxBatch readings, none older than t
RECURSIVE BatchesFrom(_, _)
BatchesFrom(t, n) ==
    IF n = 0 THEN {<<>>}
    ELSE {<<>>} \cup
         UNION { {<<r>> \o rest : rest \in BatchesFrom(r.timestamp, n - 1)} :
                 r \in {x \in BatchReadings : x.timestamp >= t} }

NoBatch == [readings |-> <<>>, heads |-> DefaultHeads, reset_readings_stack |-> FALSE,
            start |-> <<>>]
NoBatchYet == [kind |-> "init", fingerprints |-> <<>>, error |-> ""]

\* line 34 and the results of a second instance no call was made on
NewTwin == [readings_stack |-> <<>>, outcome |-> NotCalled, batch_out |-> NoBatchYet]

\* no fingerprint was returned yet and no reading ingested
NoEmission == [last |-> -1, fresh |-> 0]

\* the history after one more call: last is the timestamp of the latest fingerprint
\* returned before that call, -1 without one, and fresh the number of readings
\* ingested after that fingerprint, the call's own included, counted up to bound
SpacingAfter(h, previous, previous_timestamp, bound) ==
    IF previous.kind = "fingerprint"
    THEN [last |-> previous_timestamp, fresh |-> 1]
    ELSE [last |-> h.last, fresh |-> IF h.fresh < bound THEN h.fresh + 1 ELSE bound]

\* every reading of the batch is complete
NothingMissing == [index |-> 0, key |-> ""]

\* the dictionary d without the key k
WithoutKey(d, k) == [j \in (DOMAIN d) \ {k} |-> d[j]]

\* the dictionaries of the readings rs, the one at m.index without the key m.key
DictReadings(rs, heads, m) ==
    [i \in 1..Len(rs) |->
        IF i = m.index THEN WithoutKey(DictReading(rs[i], heads), m.key)
        ELSE DictReading(rs[i], heads)]

\* the batches a malformed reading is put in: one reading per tick at most
StrictBatches(t) ==
    { rs \in BatchesFrom(t, MaxBatch) :
        /\ rs # <<>>
        /\ \A i \in 1..(Len(rs) - 1) : rs[i].timestamp < rs[i + 1].timestamp }

-----------------------------------------------------------------------------
(* The state machine *)

Init ==
    /\ cfg \in Configs
    /\ readings_stack = <<>>
    /\ call = NoCall
    /\ pre = <<>>
    /\ window = <<>>
    /\ outcome = NotCalled
    /\ latest = 0
    /\ batch = NoBatch
    /\ batch_out = NoBatchYet
    /\ missing = NothingMissing
    /\ twin = NewTwin
    /\ spacing = NoEmission

\* the state a call of process_reading leaves
CallEnds(done) ==
    /\ readings_stack' = done.readings_stack
    /\ window' = done.window
    /\ outcome' = done.outcome

ProcessReading ==
    \E r \in Readings(cfg), aggregate_data \in AggregateChoices :
        /\ Len(readings_stack) < StackBound(cfg)
        /\ r.timestamp >= latest
        /\ CallEnds(process_reading(cfg, readings_stack, r.timestamp, r.mac_sensor,
                                    r.rssi, aggregate_data))
        /\ call' = [timestamp |-> r.timestamp, mac_sensor |-> r.mac_sensor,
                    rssi |-> r.rssi, aggregate_data |-> aggregate_data]
        /\ pre' = readings_stack
        /\ latest' = r.timestamp
        /\ UNCHANGED <<cfg, batch, batch_out, missing, twin, spacing>>

Next == ProcessReading

Spec == Init /\ [][Next]_vars

\* the engine driven through process_readings only
InitBatch ==
    /\ Init
    /\ cfg \in BatchConfigs

\* the state a call of process_readings on the readings rs leaves
BatchEnds(rs, done) ==
    /\ readings_stack' = done.readings_stack
    /\ batch_out' = done.result
    /\ latest' = IF done.ingested > 0 THEN rs[done.ingested].timestamp ELSE latest

ProcessReadings ==
    \E rs \in BatchesFrom(latest, MaxBatch), heads \in HeadChoices, reset \in BOOLEAN :
        /\ Len(readings_stack) < StackBound(cfg)
        /\ BatchEnds(rs, process_readings(cfg, readings_stack,
                                          [i \in 1..Len(rs) |-> DictReading(rs[i], heads)],
                                          heads, reset))
        /\ batch' = [readings |-> rs, heads |-> heads, reset_readings_stack |-> reset,
                     start |-> readings_stack]
        /\ missing' = NothingMissing
        /\ UNCHANGED <<cfg, call, pre, window, outcome, twin, spacing>>

NextBatch == ProcessReadings

SpecBatch == InitBatch /\ [][NextBatch]_vars

\* process_readings on a batch one reading of which lacks one of its keys
ProcessMalformedReadings ==
    \E rs \in StrictBatches(latest), heads \in HeadChoices, reset \in BOOLEAN :
        \E i \in 1..Len(rs) : \E k \in DOMAIN DictReading(rs[i], heads) :
            /\ Len(readings_stack) < StackBound(cfg)
            /\ BatchEnds(rs, process_readings(cfg, readings_stack,
                                              DictReadings(rs, heads,
                                                           [index |-> i, key |-> k]),
                                              heads, reset))
            /\ batch' = [readings |-> rs, heads |-> heads,
                         reset_readings_stack |-> reset, start |-> readings_stack]
            /\ missing' = [index |-> i, key |-> k]
            /\ UNCHANGED <<cfg, call, pre, window, outcome, twin, spacing>>

NextMalformed == ProcessMalformedReadings

\* the batch driver fed batches one reading of which is incomplete
SpecMalformed == InitBatch /\ [][NextMalformed]_vars

\* a variant in which the buffer is one list shared by all instances
ClassStack(own, other) == other

\* line 34: the buffer a call works on is the instance's own list, whatever another
\* instance's list holds
InstanceStack(own, other) == own

\* the second instance after the same call of process_reading, made after the first
\* instance's call left the buffer first_stack
TwinCallEnds(first_stack, timestamp, mac_sensor, rssi, aggregate_data) ==
    twin' = [twin EXCEPT
                !.readings_stack =
                    process_reading(cfg, InstanceStack(twin.readings_stack, first_stack),
                                    timestamp, mac_sensor, rssi,
                                    aggregate_data).readings_stack,
                !.outcome =
                    process_reading(cfg, InstanceStack(twin.readings_stack, first_stack),
                                    timestamp, mac_sensor, rssi, aggregate_data).outcome]

\* the same call of process_reading on both instances, one after the other
TwinProcessReading ==
    \E r \in BatchReadings, aggregate_data \in AggregateChoices :
        /\ Len(readings_stack) < StackBound(cfg)
        /\ r.timestamp >= latest
        /\ CallEnds(process_reading(cfg, readings_stack, r.timestamp, r.mac_sensor,
                                    r.rssi, aggregate_data))
        /\ TwinCallEnds(process_reading(cfg, readings_stack, r.timestamp, r.mac_sensor,
                                        r.rssi, aggregate_data).readings_stack,
                        r.timestamp, r.mac_sensor, r.rssi, aggregate_data)
        /\ call' = [timestamp |-> r.timestamp, mac_sensor |-> r.mac_sensor,
                    rssi |-> r.rssi, aggregate_data |-> aggregate_data]
        /\ pre' = readings_stack
        /\ latest' = r.timestamp
        /\ UNCHANGED <<cfg, batch, batch_out, missing, spacing>>

\* the second instance after the same call of process_readings
TwinBatchEnds(first_stack, readings, heads, reset) ==
    twin' = [twin EXCEPT
                !.readings_stack =
                    process_readings(cfg, InstanceStack(twin.readings_stack, first_stack),
                                     readings, heads, reset).readings_stack,
                !.batch_out =
                    process_readings(cfg, InstanceStack(twin.readings_stack, first_stack),
                                     readings, heads, reset).result]

\* the same call of process_readings on both instances, one after the other
TwinProcessReadings ==
    \E rs \in StrictBatches(latest), heads \in HeadChoices, reset \in BOOLEAN :
        /\ Len(readings_stack) < StackBound(cfg)
        /\ BatchEnds(rs, process_readings(cfg, readings_stack,
                                          [i \in 1..Len(rs) |-> DictReading(rs[i], heads)],
                                          heads, reset))
        /\ TwinBatchEnds(process_readings(cfg, readings_stack,
                                          [i \in 1..Len(rs) |-> DictReading(rs[i], heads)],
                                          heads, reset).readings_stack,
                         [i \in 1..Len(rs) |-> DictReading(rs[i], heads)], heads, reset)
        /\ batch' = [readings |-> rs, heads |-> heads, reset_readings_stack |-> reset,
                     start |-> readings_stack]
        /\ missing' = NothingMissing
        /\ UNCHANGED <<cfg, call, pre, window, outcome, spacing>>

\* the configurations the spacing of fingerprints is followed under: every window
\* policy on two sensors, under a filter that is recognised and under one that is not
SpacingConfigs ==
    { c \in Configs :
        /\ c.sensor_mac_list = <<"A", "B">>
        /\ c.filter_method \in {"mean", "rms"} }

InitSpacing ==
    /\ Init
    /\ cfg \in SpacingConfigs

\* process_reading, with the history of the fingerprint before it kept
SpacedProcessReading ==
    \E r \in Readings(cfg), aggregate_data \in AggregateChoices :
        /\ Len(readings_stack) < StackBound(cfg)
        /\ r.timestamp >= latest
        /\ CallEnds(process_reading(cfg, readings_stack, r.timestamp, r.mac_sensor,
                                    r.rssi, aggregate_data))
        /\ call' = [timestamp |-> r.timestamp, mac_sensor |-> r.mac_sensor,
                    rssi |-> r.rssi, aggregate_data |-> aggregate_data]
        /\ pre' = readings_stack
        /\ latest' = r.timestamp
        /\ spacing' = SpacingAfter(spacing, outcome, call.timestamp, StackBound(cfg))
        /\ UNCHANGED <<cfg, batch, batch_out, missing, twin>>

NextSpacing == SpacedProcessReading

\* one engine fed single readings, the previous fingerprint remembered
SpecSpacing == InitSpacing /\ [][NextSpacing]_vars

NextTwin == TwinProcessReading \/ TwinProcessReadings

\* two instances with the same parameters given the same calls
SpecTwin == InitBatch /\ [][NextTwin]_vars

-----------------------------------------------------------------------------
(* Vocabulary of the properties *)

Called == outcome.kind # "init"
Emitted == outcome.kind = "fingerprint"

\* the reading the last call ingested
Ingested == [timestamp |-> call.timestamp, mac_sensor |-> call.mac_sensor,
             rssi |-> call.rssi]

SensorSet == SeqSet(cfg.sensor_mac_list)

\* how many readings of sensor s the buffer w holds
Entries(w, s) == Cardinality({i \in 1..Len(w) : w[i].mac_sensor = s})

\* the configured sensors present in w
Present(w) == {s \in SensorSet : Entries(w, s) >= cfg.min_entries_per_sensor}

\* the validity of w with t as its right edge, as the specification words it
LongEnough(w, t) == w # <<>> /\ t - w[1].timestamp >= cfg.min_window_size
WindowValid(w, t) == LongEnough(w, t) /\ Cardinality(Present(w)) >= cfg.min_valid_sensors

\* how many entries the last call evicted from the head
Evicted == Len(pre) + 1 - Len(window)

-----------------------------------------------------------------------------
\* C1 (eviction invariant): after every call the buffer is empty or its head, and so
\* every entry of it, is at most max_window_size older than the most recently
\* ingested reading.
C1_EvictionInvariant ==
    Called =>
        /\ readings_stack # <<>> =>
               latest - readings_stack[1].timestamp <= cfg.max_window_size
        /\ \A i \in 1..Len(readings_stack) :
               latest - readings_stack[i].timestamp <= cfg.max_window_size

\* a call that evicted two stale entries and kept a buffer
C1_Witness ==
    /\ Called
    /\ Evicted >= 2
    /\ readings_stack # <<>>
    /\ latest = call.timestamp

\* C2 (at most one window): whenever a call returns a fingerprint the buffer is
\* empty right after it, the triggering reading included.
C2_EmptyAfterEmission ==
    Emitted => readings_stack = <<>>

\* an emission that consumed a window of several readings
C2_Witness ==
    /\ Emitted
    /\ Len(window) >= 2
    /\ window[Len(window)] = Ingested
    /\ readings_stack = <<>>

\* the reduction of w raises: a present sensor meets an unrecognised filter method, or
\* a filter other than the total signal sum meets an empty list of readings
ReductionFails(w) ==
    \E s \in Present(w) :
        \/ cfg.filter_method \notin KnownFilters
        \/ cfg.filter_method # "tss" /\ Entries(w, s) = 0

\* C3 as stated (emission decision): a call returns a fingerprint if and only if the
\* buffer after append and eviction is long enough and holds enough present sensors,
\* and returns None in every other case.
C3_Original ==
    Called =>
        \/ WindowValid(window, call.timestamp) /\ Emitted
        \/ ~WindowValid(window, call.timestamp) /\ outcome = None

\* C3 as amended: a call returns None if and only if the buffer after append and
\* eviction is not valid; on a valid buffer it returns a fingerprint unless the
\* reduction raises, and then the call raises and returns nothing.  With a recognised
\* filter method and min_entries_per_sensor >= 1 the reduction never raises.
C3_EmissionDecision ==
    Called =>
        /\ outcome = None <=> ~WindowValid(window, call.timestamp)
        /\ Emitted <=> WindowValid(window, call.timestamp) /\ ~ReductionFails(window)
        /\ outcome.kind = "error" <=>
               WindowValid(window, call.timestamp) /\ ReductionFails(window)
        /\ cfg.filter_method \in KnownFilters /\ cfg.min_entries_per_sensor >= 1
               => ~ReductionFails(window)

\* a fingerprint returned on a window exactly min_window_size long that holds exactly
\* min_valid_sensors present sensors
C3_Witness ==
    /\ Emitted
    /\ call.timestamp - window[1].timestamp = cfg.min_window_size
    /\ Cardinality(Present(window)) = cfg.min_valid_sensors
    /\ cfg.min_valid_sensors >= 1
    /\ cfg.min_entries_per_sensor >= 1

\* C4 (sensor completeness): a returned fingerprint, with or without extra data, has
\* an entry for every configured sensor, which is the value reduced from that sensor's
\* readings in the consumed window when the sensor is present and invalid_sensor_value
\* otherwise; its only other keys are the timestamp and the keys of the extra data.
C4_SensorCompleteness ==
    Emitted =>
        /\ SensorSet \subseteq DOMAIN outcome.fingerprint
        /\ \A s \in SensorSet :
               outcome.fingerprint[s] =
                   IF s \in Present(window)
                   THEN ApplyFilter(cfg.filter_method,
                                    RssiOf(SensorReadings(window, s))).value
                   ELSE Num(cfg.invalid_sensor_value)
        /\ DOMAIN outcome.fingerprint =
               SensorSet \cup {"timestamp"}
                   \cup UNION {DOMAIN d : d \in call.aggregate_data}

\* a fingerprint with extra data in which one sensor is reduced and the other is not
C4_Witness ==
    /\ Emitted
    /\ call.aggregate_data # {}
    /\ Present(window) # {}
    /\ SensorSet \ Present(window) # {}

\* the floor of the mean of the rssi values of sensor s in w: the integer m with
\* m * n <= sum < (m + 1) * n
MeanFloorOf(w, s) ==
    LET values == {i \in 1..Len(w) : w[i].mac_sensor = s}
        n == Cardinality(values)
        total == SeqSum([i \in 1..Len(w) |-> IF i \in values THEN w[i].rssi ELSE 0])
    IN  CHOOSE m \in -100..100 : m * n <= total /\ total < (m + 1) * n

ExampleCall(i) ==
    /\ Called
    /\ cfg = ExampleConfig
    /\ pre = SubSeq(ExampleReadings, 1, i - 1)
    /\ Ingested = ExampleReadings[i]

\* C5 (reduction with "mean"): in a returned fingerprint every present sensor has the
\* floor (toward minus infinity) of the mean of its own rssi values in the consumed
\* window and every other sensor has invalid_sensor_value; on the worked example
\* (in tenths of a second) the first three calls return None and the fourth returns
\* {A: -42, B: -51, timestamp: 1.0}.
C5_MeanReduction ==
    /\ Emitted /\ cfg.filter_method = "mean" =>
           \A s \in SensorSet :
               outcome.fingerprint[s] =
                   IF s \in Present(window)
                   THEN Num(MeanFloorOf(window, s))
                   ELSE Num(cfg.invalid_sensor_value)
    /\ \A i \in 1..3 : ExampleCall(i) => outcome = None
    /\ ExampleCall(4) =>
           /\ Emitted
           /\ outcome.fingerprint["A"] = Num(-42)
           /\ outcome.fingerprint["B"] = Num(-51)
           /\ outcome.fingerprint["timestamp"] = Num(10)
           /\ call.aggregate_data = {} =>
                  DOMAIN outcome.fingerprint = {"A", "B", "timestamp"}

\* a fingerprint whose mean is not an integer, next to a sensor without enough readings
C5_Witness ==
    /\ Emitted
    /\ cfg.filter_method = "mean"
    /\ SensorSet \ Present(window) # {}
    /\ \E s \in Present(window) :
           /\ Entries(window, s) >= 2
           /\ MeanFloorOf(window, s) * Entries(window, s) #
                  SeqSum(RssiOf(SensorReadings(window, s)))

\* C6 (insufficient sensors): a call that leaves fewer than min_valid_sensors present
\* sensors in the buffer after append and eviction returns None, however long the
\* window is, and keeps that buffer; stale readings leave it without any signal.
C6_InsufficientSensors ==
    Called /\ Cardinality(Present(window)) < cfg.min_valid_sensors =>
        /\ outcome = None
        /\ readings_stack = window

\* a long-enough window without enough sensors, from which a stale reading was evicted
C6_Witness ==
    /\ Called
    /\ Cardinality(Present(window)) < cfg.min_valid_sensors
    /\ LongEnough(window, call.timestamp)
    /\ Evicted >= 1
    /\ outcome = None

\* C7 (no-emission frame): when a call returns None the buffer is the former buffer
\* with the reading appended, less a prefix of entries all more than max_window_size
\* older than the reading; no entry within max_window_size is lost and the reading
\* itself is the tail.
C7_NoEmissionFrame ==
    outcome = None =>
        LET appended == Append(pre, Ingested)
            k == Len(appended) - Len(readings_stack)
        IN  /\ k \in 0..Len(pre)
            /\ readings_stack = SubSeq(appended, k + 1, Len(appended))
            /\ \A i \in 1..k :
                   call.timestamp - appended[i].timestamp > cfg.max_window_size
            /\ \A i \in 1..Len(appended) :
                   call.timestamp - appended[i].timestamp <= cfg.max_window_size
                       => i > k
            /\ readings_stack[Len(readings_stack)] = Ingested

\* a None call that evicted a reading and kept one exactly max_window_size old
C7_Witness ==
    /\ outcome = None
    /\ Evicted >= 1
    /\ Len(readings_stack) >= 2
    /\ call.timestamp - readings_stack[1].timestamp = cfg.max_window_size

\* C8 (timestamp and merge precedence): a returned fingerprint carries the timestamp
\* of the triggering call; every key of the extra data is in it, with the extra value
\* unless the key is 'timestamp' or a configured sensor, where the fingerprint's own
\* value stands.
C8_TimestampAndMerge ==
    Emitted =>
        /\ outcome.fingerprint["timestamp"] = Num(call.timestamp)
        /\ \A d \in call.aggregate_data : \A k \in DOMAIN d :
               /\ k \in DOMAIN outcome.fingerprint
               /\ outcome.fingerprint[k] =
                      IF k = "timestamp" THEN Num(call.timestamp)
                      ELSE IF k \in SensorSet
                      THEN compose_fingerprint_data(cfg, window).fingerprint[k]
                      ELSE d[k]

\* a fingerprint whose extra data collides on the timestamp and on a sensor and
\* brings a key of its own
C8_Witness ==
    /\ Emitted
    /\ \E d \in call.aggregate_data :
           /\ "timestamp" \in DOMAIN d
           /\ (DOMAIN d) \cap SensorSet # {}
           /\ (DOMAIN d) \ (SensorSet \cup {"timestamp"}) # {}
           /\ \A k \in (DOMAIN d) \cap (SensorSet \cup {"timestamp"}) :
                  outcome.fingerprint[k] # d[k]

\* C9 as stated (lazy configuration error): under an unrecognised filter method a
\* call on a window that is not valid returns None and a call on a valid window
\* raises 'Invalid filtering type' and returns no fingerprint.
C9_LazyConfigurationError ==
    Called /\ cfg.filter_method \notin KnownFilters =>
        IF WindowValid(window, call.timestamp)
        THEN outcome = Raised("Invalid filtering type")
        ELSE outcome = None

-----------------------------------------------------------------------------
(* The batch driver against single calls *)

\* the extra data a caller of process_reading builds for reading r of the last batch
RefAggregate(r) ==
    IF batch.heads.aggregate_data_heads = <<>>
    THEN {}
    ELSE {[h \in SeqSet(batch.heads.aggregate_data_heads) |->
              DictReading(r, batch.heads)[h]]}

\* the i-th of the single calls that replay the last batch, and the buffer it starts from
RECURSIVE RefCall(_)
RefCall(i) ==
    LET r == batch.readings[i]
        before == IF i = 1
                  THEN IF batch.reset_readings_stack THEN <<>> ELSE batch.start
                  ELSE RefCall(i - 1).readings_stack
    IN  process_reading(cfg, before, r.timestamp, r.mac_sensor, r.rssi, RefAggregate(r))

RefOutcomes == [i \in 1..Len(batch.readings) |-> RefCall(i).outcome]

\* the results of the single calls that are not None, in order
RefFingerprints ==
    LET hits == SelectSeq(RefOutcomes, LAMBDA o : o.kind = "fingerprint")
    IN  [j \in 1..Len(hits) |-> hits[j].fingerprint]

\* C10 (batch driver equivalence): the list process_readings returns is, in input
\* order, the non-None results of one process_reading call per reading, with the
\* extra data taken from the listed passthrough keys, started on the current buffer
\* when reset_readings_stack is false and on an empty buffer when it is true; the
\* driver raises a reduction error exactly when one of those calls would.
C10_BatchEquivalence ==
    /\ batch_out.kind = "returned" =>
           /\ batch_out.fingerprints = RefFingerprints
           /\ \A i \in 1..Len(batch.readings) : RefOutcomes[i].kind # "error"
    /\ batch_out.kind = "error" /\ batch_out.error # "KeyError" =>
           \E i \in 1..Len(batch.readings) : RefOutcomes[i] = Raised(batch_out.error)

\* a batch on a non-empty buffer that returned two fingerprints with a None between
\* them and passthrough data in them
C10_Witness ==
    /\ batch_out.kind = "returned"
    /\ Len(batch_out.fingerprints) >= 2
    /\ batch_out.fingerprints[1] # batch_out.fingerprints[2]
    /\ \E i \in 2..Len(batch.readings) :
           RefOutcomes[i] = None /\ RefOutcomes[i - 1].kind = "fingerprint"
    /\ ~batch.reset_readings_stack
    /\ batch.start # <<>>
    /\ "note" \in DOMAIN batch_out.fingerprints[1]

\* the last batch held a reading without a key the driver reads
Malformed == missing.index > 0 /\ missing.key \in WantedKeys(batch.heads)

\* the buffer the single calls leave after the first n readings of the last batch
RefStackAfter(n) ==
    IF n = 0
    THEN IF batch.reset_readings_stack THEN <<>> ELSE batch.start
    ELSE RefCall(n).readings_stack

\* C11 (malformed input aborts the batch): when process_readings reaches a reading
\* that lacks its timestamp, sensor or value key, or a listed passthrough key, the
\* call raises at that reading and returns no list, and the buffer is the one the
\* readings before it left: neither that reading nor a later one is ingested.
C11_MalformedAborts ==
    (/\ Malformed
     /\ \A i \in 1..(missing.index - 1) : RefOutcomes[i].kind # "error")
    => /\ batch_out = BatchRaised("KeyError")
       /\ readings_stack = RefStackAfter(missing.index - 1)

\* a batch whose second reading of three lacks a key: the call raised and the buffer
\* holds the first reading only
C11_Witness ==
    /\ Malformed
    /\ missing.index = 2
    /\ Len(batch.readings) = 3
    /\ batch_out = BatchRaised("KeyError")
    /\ Len(readings_stack) = 1
    /\ readings_stack[1].timestamp = batch.readings[1].timestamp

BatchDicts == DictReadings(batch.readings, batch.heads, missing)

\* C13 (batch reset flag): a process_readings call with reset_readings_stack true that
\* returns normally leaves the buffer empty and returns what it would return on an
\* empty buffer, whatever the buffer held before; with reset_readings_stack false the
\* driver never clears the buffer: the leftovers of earlier calls take part in the
\* batch and what the single calls leave is still buffered afterwards.
C13_ResetFlag ==
    batch_out.kind = "returned" =>
        IF batch.reset_readings_stack
        THEN /\ readings_stack = <<>>
             /\ batch_out = process_readings(cfg, <<>>, BatchDicts, batch.heads,
                                             TRUE).result
        ELSE /\ readings_stack = RefStackAfter(Len(batch.readings))
             /\ batch_out.fingerprints = RefFingerprints
             /\ batch.readings = <<>> => readings_stack = batch.start

\* a resetting batch on a non-empty buffer: the leftovers would have changed the list,
\* and the readings the batch left are cleared too
C13_Witness ==
    /\ batch_out.kind = "returned"
    /\ batch.reset_readings_stack
    /\ batch.start # <<>>
    /\ batch_out.fingerprints # <<>>
    /\ process_readings(cfg, batch.start, BatchDicts, batch.heads, FALSE).result
           # batch_out
    /\ RefStackAfter(Len(batch.readings)) # <<>>
    /\ readings_stack = <<>>

\* C14 (validity monotonicity): when check_valid_window(t) is true for a buffer, it is
\* true for every buffer obtained from it by appending readings at the tail only.
C14_ValidityMonotone ==
    \A k \in 1..Len(window), t \in 0..MaxTime :
        check_valid_window(cfg, SubSeq(window, 1, k), t)
            => check_valid_window(cfg, window, t)

\* a buffer valid with one sensor that stays valid after readings of another sensor,
\* which make a second sensor count, were appended
C14_Witness ==
    /\ cfg.min_valid_sensors >= 1
    /\ cfg.min_entries_per_sensor >= 1
    /\ Len(window) >= 2
    /\ \E t \in 0..MaxTime :
           /\ check_valid_window(cfg, SubSeq(window, 1, 1), t)
           /\ check_valid_window(cfg, window, t)
    /\ ValidSensors(cfg, window) > ValidSensors(cfg, SubSeq(window, 1, 1))

\* how many readings of sensor s with signal value x the buffer w holds
EntriesAt(w, s, x) ==
    Cardinality({i \in 1..Len(w) : w[i].mac_sensor = s /\ w[i].rssi = x})

\* the signal values of sensor s in w
SignalValues(w, s) == {w[i].rssi : i \in {j \in 1..Len(w) : w[j].mac_sensor = s}}

\* C15 (total signal sum is unfloored): under "tss" the value of a present sensor is
\* the sum of 10^(x/10) over its readings x in the window, kept as a real, so that n
\* readings of the same value X give n * 10^(X/10); under every other filter method
\* the value is an integer, which lies between the sensor's lowest and highest value.
C15_TssUnfloored ==
    Emitted =>
        \A s \in Present(window) :
            IF cfg.filter_method = "tss"
            THEN outcome.fingerprint[s] =
                     Tss([x \in SignalValues(window, s) |-> EntriesAt(window, s, x)])
            ELSE \E n \in SetMin(SignalValues(window, s))..SetMax(SignalValues(window, s)) :
                     outcome.fingerprint[s] = Num(n)

\* a fingerprint under "tss" of a sensor with two readings of the same value
C15_Witness ==
    /\ Emitted
    /\ cfg.filter_method = "tss"
    /\ \E s \in Present(window) :
           \E x \in SignalValues(window, s) :
               /\ EntriesAt(window, s, x) = 2
               /\ outcome.fingerprint[s] = Tss([y \in {x} |-> 2])

\* C16 (count guard): compose_fingerprint_data applies the filter method to a sensor
\* only when the sensor has at least one reading in the snapshot: no call ends in a
\* reduction over an empty list, and in a fingerprint a sensor without readings has
\* the value invalid_sensor_value.
C16_CountGuard ==
    Called =>
        /\ outcome.error # "empty reduction"
        /\ Emitted =>
               \A s \in SensorSet :
                   Entries(window, s) = 0 =>
                       outcome.fingerprint[s] = Num(cfg.invalid_sensor_value)

\* the timestamps of w do not decrease from head to tail
TimeOrdered(w) == \A i \in 1..(Len(w) - 1) : w[i].timestamp <= w[i + 1].timestamp

\* w is what is left of v after entries were removed from its head
TailOf(w, v) == \E k \in 0..Len(v) : w = SubSeq(v, k + 1, Len(v))

\* C17 (buffer shape): under calls with non-decreasing timestamps every call leaves a
\* buffer that is the buffer before it with the new reading added at the tail and
\* entries removed from the head only, or that is empty after all entries were removed
\* at once; so the buffer is a contiguous run of the ingested readings in arrival
\* order, empty or ending with the latest reading, with non-decreasing timestamps.
C17_BufferShape ==
    Called =>
        /\ TailOf(window, Append(pre, Ingested))
        /\ window # <<>> /\ window[Len(window)] = Ingested
        /\ readings_stack = window \/ readings_stack = <<>>
        /\ readings_stack # <<>> => readings_stack[Len(readings_stack)] = Ingested
        /\ TimeOrdered(pre) /\ TimeOrdered(readings_stack)

\* a call that removed one entry from the head and kept an older reading in front of
\* the new one
C17_Witness ==
    /\ Called
    /\ Evicted = 1
    /\ Len(readings_stack) = 2
    /\ readings_stack = SubSeq(Append(pre, Ingested), 2, Len(pre) + 1)
    /\ readings_stack[1].timestamp < readings_stack[2].timestamp

\* C18 (window span at emission): whenever a call returns a fingerprint, the time from
\* the oldest reading of the consumed window to the triggering reading is at least
\* min_window_size and at most max_window_size, and no reading of the window is older
\* than max_window_size relative to the triggering reading.
C18_SpanAtEmission ==
    Emitted =>
        /\ cfg.min_window_size <= call.timestamp - window[1].timestamp
        /\ call.timestamp - window[1].timestamp <= cfg.max_window_size
        /\ \A i \in 1..Len(window) :
               /\ 0 <= call.timestamp - window[i].timestamp
               /\ call.timestamp - window[i].timestamp <= cfg.max_window_size

\* a fingerprint on a window exactly max_window_size long, an older reading having
\* been evicted by the same call
C18_Witness ==
    /\ Emitted
    /\ Evicted >= 1
    /\ Len(window) >= 2
    /\ call.timestamp - window[1].timestamp = cfg.max_window_size
    /\ call.timestamp - pre[1].timestamp > cfg.max_window_size

\* C19 (emission spacing and disjoint windows): under non-decreasing timestamps a
\* fingerprint comes at least min_window_size after the fingerprint before it, and the
\* window it consumed holds only readings ingested after that fingerprint, so that no
\* reading contributes to two fingerprints.
C19_SpacingAndDisjoint ==
    Emitted =>
        /\ spacing.last >= 0 => call.timestamp - spacing.last >= cfg.min_window_size
        /\ Len(window) <= spacing.fresh

\* a second fingerprint exactly min_window_size after the first, on a window of all
\* the readings ingested since
C19_Witness ==
    /\ Emitted
    /\ spacing.last >= 0
    /\ call.timestamp - spacing.last = cfg.min_window_size
    /\ Len(window) = spacing.fresh
    /\ Len(window) >= 2

\* C20 (state after a configuration error): when a call raises 'Invalid filtering type'
\* the buffer has been cleared already: the readings of the window, the triggering one
\* included, are gone although no fingerprint was returned, and the buffer, now empty,
\* is not the one the call started from.
C20_ClearedBeforeError ==
    (Called /\ outcome.error = "Invalid filtering type") =>
        /\ outcome = Raised("Invalid filtering type")
        /\ window # <<>> /\ window[Len(window)] = Ingested
        /\ readings_stack = <<>>
        /\ cfg.min_window_size > 0 => pre # <<>> /\ readings_stack # pre

\* a call that raised the error on a window of three readings
C20_Witness ==
    /\ Called
    /\ outcome = Raised("Invalid filtering type")
    /\ Len(window) = 3
    /\ Len(pre) = 2
    /\ readings_stack = <<>>

====
